---- MODULE Spec2Model ----
(***************************************************************************)
(* Unit of Work of gojogo (package tracker): pending queues guarded by one *)
(* mutex, and Commit, which snapshots the queues, applies the snapshot in  *)
(* one store transaction, and dispatches the after-commit / after-rollback *)
(* callbacks.  One UnitOfWork instance, shared by committing callers and   *)
(* by callers that queue work or clear the instance.  Spec has one caller  *)
(* committing (repeatedly); SpecOverlap adds a second caller whose Commit  *)
(* overlaps the first one's; SpecRetry bounds the commits of the one       *)
(* caller and counts callback invocations; SpecLive adds fairness of the   *)
(* committing caller; SpecNew is New of the connection-caching variant.    *)
(***************************************************************************)
EXTENDS Integers, Sequences, FiniteSets, TLC

\* ---------------------------------------------------------------- bounds
MaxItems == 3       \* queue calls (Add/Update/RegisterDelete/Do/AfterCommit/AfterRollback)
MaxOverlaps == 2    \* Commit calls when two callers commit (SpecOverlap)
MaxAttempts == 3    \* Commit calls when the caller retries (SpecRetry)

Committers == {"c1", "c2"}

\* the goroutines calling New (connection-caching variant) and the connections
NewCallers == {"n1", "n2", "n3"}
Conns == {"d1", "d2"}
Nil == <<>>

\* the six queueing methods of UnitOfWork; an entity / operation / callback is
\* identified by the number of the queue call that registered it
Methods == {"Add", "Update", "RegisterDelete", "Do", "AfterCommit", "AfterRollback"}

NoErr == <<>>                       \* nil
ErrOf(call) == <<"err", call>>      \* the error the store / operation returned for this call
ErrTx == <<"err", <<"tx", 0>>>>    \* the error of the transaction scope itself (begin / commit)

VARIABLES
  ops, toCreate, toUpdate, toDelete, afterCommit, afterRollback, \* UnitOfWork fields
  mu,         \* UnitOfWork.mu: "free", or the caller holding it
  store,      \* committed store: sequence of <<method, item, committer>>
  pc,         \* position of each committer inside Commit
  snap,       \* Commit's local copies of the six slices
  txlog,      \* calls made on the transaction handle in the current attempt
  txErr,      \* Commit's txErr
  ret,        \* value returned by the latest Commit of each committer
  hookLog,    \* callbacks invoked in the current attempt
  panicked,   \* a callback of the current attempt panicked (and was recovered)
  calls,      \* history: method of every queue call, in call order
  lastClear,  \* history: number of queue calls made before the latest Clear
  lo, hi,     \* history: lastClear and Len(calls) when the snapshot was taken
  clr,        \* history: Len(calls) when this attempt's own Clear ran
  disturbed,  \* history: a Clear other than the attempt's own ran since the snapshot
  byOp,       \* history: queue calls made by deferred operations of this attempt
  overlaps,   \* Commit calls made under SpecOverlap
  tally,      \* history kept under SpecRetry: Commit calls, failed returns, the
              \* queue calls made before the first Commit, invocations per callback
  gormRoots,  \* the process-wide cache of New: connection -> root handle
  newPc,      \* position of each caller inside New
  sqlDB,      \* New's argument
  gdb,        \* New's local gdb
  openErr,    \* New's local err is not nil
  root        \* the root of the UnitOfWork New returned

pending == <<ops, toCreate, toUpdate, toDelete, afterCommit, afterRollback>>
local   == <<pc, snap, txlog, txErr, ret, hookLog, panicked>>
hist    == <<lo, hi, clr, disturbed>>
cache   == <<gormRoots, newPc, sqlDB, gdb, openErr, root>>
vars    == <<pending, mu, store, local, calls, lastClear, hist, byOp, overlaps, tally, cache>>

\* ------------------------------------------------------------- the mutex
\* u.mu.Lock() returns only when nobody holds the mutex
Lock == mu = "free"

\* u.mu.Unlock(), also when deferred to the end of the method
Unlock == mu' = "free"

\* ------------------------------------------------------------ queueing
Do(op) ==
  /\ ops' = Append(ops, op)
  /\ UNCHANGED <<toCreate, toUpdate, toDelete, afterCommit, afterRollback>>

\* (variant) Add appends to a copy of the slice it read before another append
AddStale(entity) ==
  /\ \E k \in 0..Len(toCreate) : toCreate' = Append(SubSeq(toCreate, 1, k), entity)
  /\ UNCHANGED <<ops, toUpdate, toDelete, afterCommit, afterRollback>>

Add(entity) ==
  /\ toCreate' = Append(toCreate, entity)
  /\ UNCHANGED <<ops, toUpdate, toDelete, afterCommit, afterRollback>>

\* (variant) Update also tracks the entity for creation
UpdateAlsoAdds(entity) ==
  /\ toUpdate' = Append(toUpdate, entity)
  /\ toCreate' = Append(toCreate, entity)
  /\ UNCHANGED <<ops, toDelete, afterCommit, afterRollback>>

Update(entity) ==
  /\ toUpdate' = Append(toUpdate, entity)
  /\ UNCHANGED <<ops, toCreate, toDelete, afterCommit, afterRollback>>

RegisterDelete(entity) ==
  /\ toDelete' = Append(toDelete, entity)
  /\ UNCHANGED <<ops, toCreate, toUpdate, afterCommit, afterRollback>>

AfterCommit(cb) ==
  /\ afterCommit' = Append(afterCommit, cb)
  /\ UNCHANGED <<ops, toCreate, toUpdate, toDelete, afterRollback>>

AfterRollback(cb) ==
  /\ afterRollback' = Append(afterRollback, cb)
  /\ UNCHANGED <<ops, toCreate, toUpdate, toDelete, afterCommit>>

\* one queue call on the instance: the method appends under the mutex
Queue(m) ==
  /\ Len(calls) < MaxItems
  /\ Lock
  /\ Unlock
  /\ calls' = Append(calls, m)
  /\ CASE m = "Add"            -> Add(Len(calls) + 1)
       [] m = "Update"         -> Update(Len(calls) + 1)
       [] m = "RegisterDelete" -> RegisterDelete(Len(calls) + 1)
       [] m = "Do"             -> Do(Len(calls) + 1)
       [] m = "AfterCommit"    -> AfterCommit(Len(calls) + 1)
       [] m = "AfterRollback"  -> AfterRollback(Len(calls) + 1)

\* what a deferred operation or a callback may do to the instance while it runs:
\* nothing, or one queue call (main.go's operation calls uow.Update)
Reenter(q) ==
  IF q = "none" THEN UNCHANGED <<pending, calls, mu>> ELSE Queue(q)

\* (variant) Clear forgets the deferred operations
ClearKeepsOps ==
  /\ ops' = ops
  /\ toCreate' = <<>>
  /\ toUpdate' = <<>>
  /\ toDelete' = <<>>
  /\ afterCommit' = <<>>
  /\ afterRollback' = <<>>

\* (variant) Clear keeps the registered callbacks
ClearKeepsHooks ==
  /\ ops' = <<>>
  /\ toCreate' = <<>>
  /\ toUpdate' = <<>>
  /\ toDelete' = <<>>
  /\ afterCommit' = afterCommit
  /\ afterRollback' = afterRollback

\* (variant) Clear keeps the entities queued for creation
ClearKeepsCreates ==
  /\ ops' = <<>>
  /\ toCreate' = toCreate
  /\ toUpdate' = <<>>
  /\ toDelete' = <<>>
  /\ afterCommit' = <<>>
  /\ afterRollback' = <<>>

Clear ==
  /\ ops' = <<>>
  /\ toCreate' = <<>>
  /\ toUpdate' = <<>>
  /\ toDelete' = <<>>
  /\ afterCommit' = <<>>
  /\ afterRollback' = <<>>

\* (variant) registered callbacks count as pending
HasPendingWithHooks ==
  Len(ops) > 0 \/ Len(toCreate) > 0 \/ Len(toUpdate) > 0 \/ Len(toDelete) > 0
    \/ Len(afterCommit) > 0 \/ Len(afterRollback) > 0

HasPending ==
  Len(ops) > 0 \/ Len(toCreate) > 0 \/ Len(toUpdate) > 0 \/ Len(toDelete) > 0

\* -------------------------------------------------------------- helpers
RECURSIVE Tag(_, _)
Tag(m, s) == IF s = <<>> THEN <<>> ELSE <<<<m, Head(s)>>>> \o Tag(m, Tail(s))

InFlight(c) == pc[c] # "idle"

\* ---------------------------------------------------------------- Commit
NoSnap ==
  [deferredOps |-> <<>>, creates |-> <<>>, updates |-> <<>>, deletes |-> <<>>,
   afterCommit |-> <<>>, afterRollback |-> <<>>]

\* the copies Commit takes under the mutex
Snapshot ==
  [deferredOps |-> ops, creates |-> toCreate, updates |-> toUpdate,
   deletes |-> toDelete, afterCommit |-> afterCommit,
   afterRollback |-> afterRollback]

\* (variant) the body saves the updates before it creates
WorkUpdatesFirst(c) ==
  Tag("Save", snap[c].updates) \o Tag("Create", snap[c].creates)
    \o Tag("Delete", snap[c].deletes) \o Tag("op", snap[c].deferredOps)

\* (variant) the body walks the instance's slices, not its copies
WorkLive(c) ==
  Tag("Create", toCreate) \o Tag("Save", toUpdate)
    \o Tag("Delete", toDelete) \o Tag("op", ops)

\* the order in which the transaction body walks the snapshot
Work(c) ==
  Tag("Create", snap[c].creates) \o Tag("Save", snap[c].updates)
    \o Tag("Delete", snap[c].deletes) \o Tag("op", snap[c].deferredOps)

\* (variant) the snapshot moves the slices out of the instance
CommitSnapshotMoves(c) ==
  /\ pc[c] = "idle"
  /\ Lock
  /\ snap' = [snap EXCEPT ![c] = Snapshot]
  /\ Unlock
  /\ Clear
  /\ pc' = [pc EXCEPT ![c] = "tx"]
  /\ lo' = [lo EXCEPT ![c] = lastClear]
  /\ hi' = [hi EXCEPT ![c] = Len(calls)]
  /\ UNCHANGED <<store, txlog, txErr, ret, hookLog, panicked, calls,
                 lastClear, clr, disturbed, byOp>>

\* (variant) Commit defers the Unlock to its return
CommitSnapshotHoldsLock(c) ==
  /\ pc[c] = "idle"
  /\ Lock
  /\ snap' = [snap EXCEPT ![c] = Snapshot]
  /\ mu' = c
  /\ pc' = [pc EXCEPT ![c] = "tx"]
  /\ lo' = [lo EXCEPT ![c] = lastClear]
  /\ hi' = [hi EXCEPT ![c] = Len(calls)]
  /\ UNCHANGED <<pending, store, txlog, txErr, ret, hookLog, panicked, calls,
                 lastClear, clr, disturbed, byOp>>

\* (variant) the snapshot moves the callback lists out of the instance
CommitSnapshotMovesHooks(c) ==
  /\ pc[c] = "idle"
  /\ Lock
  /\ snap' = [snap EXCEPT ![c] = Snapshot]
  /\ afterCommit' = <<>>
  /\ afterRollback' = <<>>
  /\ Unlock
  /\ pc' = [pc EXCEPT ![c] = "tx"]
  /\ lo' = [lo EXCEPT ![c] = lastClear]
  /\ hi' = [hi EXCEPT ![c] = Len(calls)]
  /\ UNCHANGED <<ops, toCreate, toUpdate, toDelete, store, txlog, txErr, ret,
                 hookLog, panicked, calls, lastClear, clr, disturbed, byOp>>

CommitSnapshot(c) ==
  /\ pc[c] = "idle"
  /\ Lock
  /\ snap' = [snap EXCEPT ![c] = Snapshot]
  /\ Unlock
  /\ pc' = [pc EXCEPT ![c] = "tx"]
  /\ lo' = [lo EXCEPT ![c] = lastClear]
  /\ hi' = [hi EXCEPT ![c] = Len(calls)]
  /\ UNCHANGED <<pending, store, txlog, txErr, ret, hookLog, panicked, calls,
                 lastClear, clr, disturbed, byOp>>

\* (variant) a failed call does not end the loops
AfterCallKeepGoing(c, ok) == "tx"

\* where the body goes after a call on the transaction handle returned
AfterCall(c, ok) == IF ok THEN "tx" ELSE "rollback"

\* (variant) the call goes to the root handle, outside the scope
StoreAfterCallOnRoot(c, call) == Append(store, <<call[1], call[2], c>>)

\* the committed store after a call made through the transaction handle:
\* the call is inside the scope, so nothing is visible yet
StoreAfterCall(c, call) == store

\* one iteration of one of the four loops of the transaction body
TxApply(c) ==
  /\ pc[c] = "tx"
  /\ Len(txlog[c]) < Len(Work(c))
  /\ LET call == Work(c)[Len(txlog[c]) + 1] IN
     \E ok \in BOOLEAN, q \in Methods \cup {"none"} :
       /\ call[1] # "op" => q = "none"
       /\ Reenter(q)
       /\ txlog' = [txlog EXCEPT ![c] = Append(@, call)]
       /\ txErr' = [txErr EXCEPT ![c] = IF ok THEN @ ELSE ErrOf(call)]
       /\ pc' = [pc EXCEPT ![c] = AfterCall(c, ok)]
       /\ store' = StoreAfterCall(c, call)
       /\ byOp' = [byOp EXCEPT ![c] = IF q = "none" THEN @ ELSE @ \cup {Len(calls) + 1}]
  /\ UNCHANGED <<snap, ret, hookLog, panicked, lastClear, hist, overlaps, tally, cache>>

\* the body returned nil: the store commits the scope
TxCommit(c) ==
  /\ pc[c] = "tx"
  /\ Len(txlog[c]) = Len(Work(c))
  /\ store' = store \o [i \in 1..Len(txlog[c]) |->
                          <<txlog[c][i][1], txlog[c][i][2], c>>]
  /\ pc' = [pc EXCEPT ![c] = "clear"]
  /\ UNCHANGED <<pending, mu, snap, txlog, txErr, ret, hookLog, panicked, calls,
                 lastClear, hist, byOp, overlaps, tally, cache>>

\* the transaction scope itself fails: it cannot begin, or its commit fails
TxFail(c) ==
  /\ pc[c] = "tx"
  /\ Len(txlog[c]) \in {0, Len(Work(c))}
  /\ txErr' = [txErr EXCEPT ![c] = ErrTx]
  /\ pc' = [pc EXCEPT ![c] = "rollback"]
  /\ UNCHANGED <<pending, mu, store, snap, txlog, ret, hookLog, panicked, calls,
                 lastClear, hist, byOp, overlaps, tally, cache>>

\* invoke the next callback of the list, recovering its panic
RunHook(c, list) ==
  /\ Len(hookLog[c]) < Len(list)
  /\ \E q \in Methods \cup {"none"}, p \in BOOLEAN :
       /\ Reenter(q)
       /\ hookLog' = [hookLog EXCEPT ![c] = Append(@, list[Len(hookLog[c]) + 1])]
       /\ panicked' = [panicked EXCEPT ![c] = @ \/ p]
  /\ tally' = IF tally.attempts = 0 THEN tally
              ELSE [tally EXCEPT !.fired[list[Len(hookLog[c]) + 1]] = @ + 1]
  /\ UNCHANGED <<store, pc, snap, txlog, txErr, ret, lastClear, hist, byOp, overlaps, cache>>

\* (variant) the failure path walks the commit callbacks
RollbackHookWrongList(c) ==
  /\ pc[c] = "rollback"
  /\ RunHook(c, snap[c].afterCommit)

RollbackHook(c) ==
  /\ pc[c] = "rollback"
  /\ RunHook(c, snap[c].afterRollback)

\* Commit returns: its locals are gone, the caller holds the returned value
Return(c, err) ==
  /\ ret' = [ret EXCEPT ![c] = err]
  /\ pc' = [pc EXCEPT ![c] = "idle"]
  /\ snap' = [snap EXCEPT ![c] = NoSnap]
  /\ txlog' = [txlog EXCEPT ![c] = <<>>]
  /\ txErr' = [txErr EXCEPT ![c] = NoErr]
  /\ hookLog' = [hookLog EXCEPT ![c] = <<>>]
  /\ panicked' = [panicked EXCEPT ![c] = FALSE]
  /\ lo' = [lo EXCEPT ![c] = 0]
  /\ hi' = [hi EXCEPT ![c] = 0]
  /\ clr' = [clr EXCEPT ![c] = 0]
  /\ disturbed' = [disturbed EXCEPT ![c] = FALSE]
  /\ byOp' = [byOp EXCEPT ![c] = {}]
  /\ tally' = IF tally.attempts = 0 \/ err = NoErr THEN tally
              ELSE [tally EXCEPT !.failures = @ + 1]
  /\ UNCHANGED <<pending, mu, store, calls, lastClear, overlaps, cache>>

\* (variant) the panic of a callback replaces the transaction's error
ReturnErrHookWins(c) ==
  /\ pc[c] = "rollback"
  /\ Len(hookLog[c]) = Len(snap[c].afterRollback)
  /\ Return(c, IF panicked[c] THEN <<"err", <<"hook", 0>>>> ELSE txErr[c])

\* (variant) the panic of a callback ends the loop over the callbacks
ReturnErrAfterPanic(c) ==
  /\ pc[c] = "rollback"
  /\ Len(hookLog[c]) = Len(snap[c].afterRollback) \/ panicked[c]
  /\ Return(c, txErr[c])

\* (variant) a failed transaction is attempted again before Commit returns
ReturnErrRetries(c) ==
  /\ pc[c] = "rollback"
  /\ Len(hookLog[c]) = Len(snap[c].afterRollback)
  /\ pc' = [pc EXCEPT ![c] = "tx"]
  /\ txlog' = [txlog EXCEPT ![c] = <<>>]
  /\ txErr' = [txErr EXCEPT ![c] = NoErr]
  /\ hookLog' = [hookLog EXCEPT ![c] = <<>>]
  /\ UNCHANGED <<pending, mu, store, snap, ret, panicked, calls, lastClear,
                 hist, byOp, overlaps, tally, cache>>

ReturnErr(c) ==
  /\ pc[c] = "rollback"
  /\ Len(hookLog[c]) = Len(snap[c].afterRollback)
  /\ Return(c, txErr[c])

\* (variant) the success path goes to the callbacks without clearing
CommitClearSkipped(c) ==
  /\ pc[c] = "clear"
  /\ clr' = [clr EXCEPT ![c] = Len(calls)]
  /\ pc' = [pc EXCEPT ![c] = "hooks"]
  /\ UNCHANGED <<pending, mu, store, snap, txlog, txErr, ret, hookLog, panicked,
                 calls, lastClear, lo, hi, disturbed, byOp, overlaps, tally, cache>>

CommitClear(c) ==
  /\ pc[c] = "clear"
  /\ Lock
  /\ Clear
  /\ Unlock
  /\ lastClear' = Len(calls)
  /\ clr' = [clr EXCEPT ![c] = Len(calls)]
  /\ disturbed' = [d \in Committers |->
                     IF d # c /\ InFlight(d) THEN TRUE ELSE disturbed[d]]
  /\ pc' = [pc EXCEPT ![c] = "hooks"]
  /\ UNCHANGED <<store, snap, txlog, txErr, ret, hookLog, panicked, calls,
                 lo, hi, byOp, overlaps, tally, cache>>

\* (variant) the success path walks the rollback callbacks
CommitHookWrongList(c) ==
  /\ pc[c] = "hooks"
  /\ RunHook(c, snap[c].afterRollback)

\* (variant) the success path walks the list of the instance, not its copy
CommitHookLive(c) ==
  /\ pc[c] = "hooks"
  /\ RunHook(c, afterCommit)

CommitHook(c) ==
  /\ pc[c] = "hooks"
  /\ RunHook(c, snap[c].afterCommit)

ReturnOk(c) ==
  /\ pc[c] = "hooks"
  /\ Len(hookLog[c]) = Len(snap[c].afterCommit)
  /\ Return(c, NoErr)

\* the steps of a Commit call after its snapshot
Steps(c) ==
  \/ TxApply(c)
  \/ TxCommit(c)
  \/ TxFail(c)
  \/ RollbackHook(c)
  \/ ReturnErr(c)
  \/ CommitClear(c)
  \/ CommitHook(c)
  \/ ReturnOk(c)

\* ------------------------------------------------------- other callers
CallQueue(m) ==
  /\ Queue(m)
  /\ UNCHANGED <<store, local, lastClear, hist, byOp, overlaps, tally, cache>>

\* (variant) Clear also empties the copies held by the commits in flight
CallClearResetsSnapshots ==
  /\ Lock
  /\ Clear
  /\ Unlock
  /\ snap' = [c \in Committers |-> NoSnap]
  /\ lastClear' = Len(calls)
  /\ disturbed' = [d \in Committers |-> IF InFlight(d) THEN TRUE ELSE disturbed[d]]
  /\ UNCHANGED <<store, pc, txlog, txErr, ret, hookLog, panicked, calls, lo, hi,
                 clr, byOp, overlaps, tally, cache>>

CallClear ==
  /\ Lock
  /\ Clear
  /\ Unlock
  /\ lastClear' = Len(calls)
  /\ disturbed' = [d \in Committers |-> IF InFlight(d) THEN TRUE ELSE disturbed[d]]
  /\ UNCHANGED <<store, local, calls, lo, hi, clr, byOp, overlaps, tally, cache>>

\* ------------------------------------------------------- specification
Init ==
  /\ ops = <<>> /\ toCreate = <<>> /\ toUpdate = <<>> /\ toDelete = <<>>
  /\ afterCommit = <<>> /\ afterRollback = <<>>
  /\ mu = "free"
  /\ store = <<>>
  /\ pc = [c \in Committers |-> "idle"]
  /\ snap = [c \in Committers |-> NoSnap]
  /\ txlog = [c \in Committers |-> <<>>]
  /\ txErr = [c \in Committers |-> NoErr]
  /\ ret = [c \in Committers |-> NoErr]
  /\ hookLog = [c \in Committers |-> <<>>]
  /\ panicked = [c \in Committers |-> FALSE]
  /\ calls = <<>>
  /\ lastClear = 0
  /\ lo = [c \in Committers |-> 0]
  /\ hi = [c \in Committers |-> 0]
  /\ clr = [c \in Committers |-> 0]
  /\ disturbed = [c \in Committers |-> FALSE]
  /\ byOp = [c \in Committers |-> {}]
  /\ overlaps = 0
  /\ tally = [attempts |-> 0, failures |-> 0, firstHi |-> 0,
              fired |-> [k \in 1..MaxItems |-> 0]]
  /\ gormRoots = [d \in Conns |-> Nil]
  /\ newPc = [n \in NewCallers |-> "idle"]
  /\ sqlDB = [n \in NewCallers |-> Nil]
  /\ gdb = [n \in NewCallers |-> Nil]
  /\ openErr = [n \in NewCallers |-> FALSE]
  /\ root = [n \in NewCallers |-> Nil]

Env == (\E m \in Methods : CallQueue(m)) \/ CallClear

\* a caller calls Commit whenever no Commit of its own is running
Call(c) == CommitSnapshot(c) /\ UNCHANGED <<overlaps, tally, cache>>

\* one caller commits, again and again; the others queue and clear
Next == Env \/ Call("c1") \/ Steps("c1")

Spec == Init /\ [][Next]_vars

\* two callers commit on the same instance, the second one only while a
\* Commit of the first is in flight
CallOverlapping(c) ==
  /\ overlaps < MaxOverlaps
  /\ c = "c2" => InFlight("c1")
  /\ CommitSnapshot(c)
  /\ overlaps' = overlaps + 1
  /\ UNCHANGED <<tally, cache>>

NextOverlap ==
  \/ \E m \in Methods : CallQueue(m)
  \/ \E c \in Committers : CallOverlapping(c) \/ Steps(c)

SpecOverlap == Init /\ [][NextOverlap]_vars

\* the caller commits again after a commit returned, a bounded number of
\* times, and nobody calls Clear
CallRetry(c) ==
  /\ tally.attempts < MaxAttempts
  /\ CommitSnapshot(c)
  /\ tally' = [tally EXCEPT !.attempts = @ + 1,
                            !.firstHi = IF tally.attempts = 0 THEN Len(calls) ELSE @]
  /\ UNCHANGED <<overlaps, cache>>

NextRetry ==
  \/ \E m \in Methods : CallQueue(m)
  \/ CallRetry("c1")
  \/ Steps("c1")

SpecRetry == Init /\ [][NextRetry]_vars

\* Commit runs synchronously in the goroutine of its caller: while the store
\* and the callbacks return, the call keeps taking its steps
SpecLive == Spec /\ WF_vars(Steps("c1"))

\* ------------------------------------------- New with the handle cache
\* everything of the UnitOfWork instance and of its commits
uow == <<pending, mu, store, local, calls, lastClear, hist, byOp, overlaps, tally>>

\* (variant) the handle just opened replaces the cached one
StoreOverwrites(d, h) == h

\* gormRoots.LoadOrStore(d, h): the entry after the call
LoadOrStore(d, h) == IF gormRoots[d] # Nil THEN gormRoots[d] ELSE h

\* New(d) starts with gormRoots.Load: a hit returns the cached handle
NewLoad(n, d) ==
  /\ newPc[n] = "idle"
  /\ sqlDB' = [sqlDB EXCEPT ![n] = d]
  /\ IF gormRoots[d] # Nil
       THEN /\ root' = [root EXCEPT ![n] = gormRoots[d]]
            /\ newPc' = [newPc EXCEPT ![n] = "done"]
       ELSE /\ newPc' = [newPc EXCEPT ![n] = "open"]
            /\ UNCHANGED root
  /\ UNCHANGED <<gormRoots, gdb, openErr, uow>>

\* gorm.Open returns a handle of its own, or an error with or without a handle
NewOpen(n) ==
  /\ newPc[n] = "open"
  /\ \E ok \in BOOLEAN, h \in {Nil, <<"gdb", n>>} :
       /\ ok => h # Nil
       /\ gdb' = [gdb EXCEPT ![n] = h]
       /\ openErr' = [openErr EXCEPT ![n] = ~ok]
       /\ newPc' = [newPc EXCEPT ![n] = IF ok THEN "store" ELSE "fallback"]
  /\ UNCHANGED <<gormRoots, sqlDB, root, uow>>

\* err == nil: LoadOrStore, and the instance gets the handle the cache holds
NewLoadOrStore(n) ==
  /\ newPc[n] = "store"
  /\ gormRoots' = [gormRoots EXCEPT ![sqlDB[n]] = LoadOrStore(sqlDB[n], gdb[n])]
  /\ root' = [root EXCEPT ![n] = gormRoots'[sqlDB[n]]]
  /\ newPc' = [newPc EXCEPT ![n] = "done"]
  /\ UNCHANGED <<sqlDB, gdb, openErr, uow>>

\* the open failed: the instance gets whatever gorm.Open returned, uncached
NewFallback(n) ==
  /\ newPc[n] = "fallback"
  /\ root' = [root EXCEPT ![n] = gdb[n]]
  /\ newPc' = [newPc EXCEPT ![n] = "done"]
  /\ UNCHANGED <<gormRoots, sqlDB, gdb, openErr, uow>>

NextNew ==
  \E n \in NewCallers :
    \/ \E d \in Conns : NewLoad(n, d)
    \/ NewOpen(n)
    \/ NewLoadOrStore(n)
    \/ NewFallback(n)

SpecNew == Init /\ [][NextNew]_vars

\* ---------------------------------------------------------- properties
DataMethods == {"Add", "Update", "RegisterDelete", "Do"}

\* the items registered by method m in queue calls a+1 .. b, in call order
RECURSIVE Queued(_, _, _)
Queued(m, a, b) ==
  IF a >= b THEN <<>>
  ELSE (IF calls[a + 1] = m THEN <<a + 1>> ELSE <<>>) \o Queued(m, a + 1, b)

\* what was pending when c took its snapshot, in the order the claims state
Expected(c) ==
  Tag("Create", Queued("Add", lo[c], hi[c]))
    \o Tag("Save", Queued("Update", lo[c], hi[c]))
    \o Tag("Delete", Queued("RegisterDelete", lo[c], hi[c]))
    \o Tag("op", Queued("Do", lo[c], hi[c]))

IsPrefix(s, t) == Len(s) <= Len(t) /\ SubSeq(t, 1, Len(s)) = s

Range(s) == {s[i] : i \in DOMAIN s}

PendingIds ==
  Range(ops) \cup Range(toCreate) \cup Range(toUpdate) \cup Range(toDelete)
    \cup Range(afterCommit) \cup Range(afterRollback)

AllEmpty ==
  /\ ops = <<>> /\ toCreate = <<>> /\ toUpdate = <<>> /\ toDelete = <<>>
  /\ afterCommit = <<>> /\ afterRollback = <<>>

\* the rows the current attempt of c left in the committed store
AttemptRows(c) ==
  SelectSeq(store, LAMBDA r : r[3] = c /\ lo[c] < r[2] /\ r[2] <= hi[c])

Rows(log, n) == [i \in 1..Len(log) |-> <<log[i][1], log[i][2], n>>]

\* Commit is about to execute `return nil` / `return txErr`
AtReturnOk(c)  == pc[c] = "hooks" /\ Len(hookLog[c]) = Len(snap[c].afterCommit)
AtReturnErr(c) == pc[c] = "rollback" /\ Len(hookLog[c]) = Len(snap[c].afterRollback)

\* C1: when the transaction of a commit has succeeded, the calls the store
\* received in it are exactly the items pending at the snapshot, each once:
\* the creates in queue order, then the updates, then the deletes, then the
\* deferred operations, and these are the rows the commit left in the store.
C1_CommitOrder ==
  \A c \in Committers :
    pc[c] \in {"clear", "hooks"} =>
      /\ txlog[c] = Expected(c)
      /\ AttemptRows(c) = Rows(Expected(c), c)

\* a successful transaction that applied an item queued later before an item
\* queued earlier (the stages reordered the queue)
C1_Witness ==
  /\ pc["c1"] = "hooks"
  /\ \E i, j \in DOMAIN txlog["c1"] :
       i < j /\ txlog["c1"][i][2] > txlog["c1"][j][2]

\* C2: an item queued after a commit's snapshot is still pending when that
\* commit returns, whether it returns nil or an error (no Clear by anybody
\* else having run meanwhile).
C2_QueuedInFlightStaysPending ==
  \A c \in Committers :
    ((AtReturnOk(c) \/ AtReturnErr(c)) /\ ~disturbed[c]) =>
      \A k \in (hi[c] + 1)..Len(calls) : k \in PendingIds

\* C3: no item is written to the store by more than one commit.
C3_NoDoubleApply ==
  \A i, j \in DOMAIN store : store[i][2] = store[j][2] => i = j

\* C4: the transaction of a commit calls the store only with items that were
\* pending at its snapshot, never with one queued later; and once it has
\* succeeded it has applied every item of the snapshot, whatever was cleared
\* from the instance meanwhile.
C4_OnlyTheSnapshot ==
  \A c \in Committers :
    InFlight(c) =>
      /\ \A i \in DOMAIN txlog[c] :
           lo[c] < txlog[c][i][2] /\ txlog[c][i][2] <= hi[c]
      /\ pc[c] \in {"clear", "hooks"} =>
           \A k \in (lo[c] + 1)..hi[c] :
             calls[k] \in DataMethods => \E i \in DOMAIN txlog[c] : txlog[c][i][2] = k

\* a transaction that succeeded with a non-empty snapshot although the instance
\* was cleared and an item was queued after the snapshot
C4_Witness ==
  /\ pc["c1"] = "clear"
  /\ disturbed["c1"]
  /\ txlog["c1"] # <<>>
  /\ Len(calls) > hi["c1"]

\* C5 as stated: when a commit returns nil, every pending sequence is empty
\* and HasPending is false.
C5_EmptyAtSuccessReturn ==
  \A c \in Committers : AtReturnOk(c) => (AllEmpty /\ ~HasPending)

\* C5 amended: from the Clear of a successful commit until its return, the
\* pending sequences hold only entries queued after that Clear; while none
\* has been queued, all six are empty and HasPending is false.
C5_OnlyLaterEntriesAtSuccessReturn ==
  \A c \in Committers :
    pc[c] = "hooks" =>
      /\ \A k \in PendingIds : k > clr[c]
      /\ Len(calls) = clr[c] => (AllEmpty /\ ~HasPending)

\* a commit of a non-empty snapshot about to return nil with nothing pending
C5_Witness ==
  /\ AtReturnOk("c1")
  /\ txlog["c1"] # <<>>
  /\ hookLog["c1"] # <<>>
  /\ AllEmpty

\* C6: when the transaction of a commit has failed (and nobody else cleared
\* the instance meanwhile), the pending creates, updates, deletes and deferred
\* operations are, in order, what the snapshot held followed by what was queued
\* since, so every call the failed transaction made is still queued for a
\* retry, and HasPending is true exactly when that is not empty.
C6_FailedCommitKeepsPending ==
  \A c \in Committers :
    (pc[c] = "rollback" /\ ~disturbed[c]) =>
      /\ toCreate = Queued("Add", lo[c], Len(calls))
      /\ toUpdate = Queued("Update", lo[c], Len(calls))
      /\ toDelete = Queued("RegisterDelete", lo[c], Len(calls))
      /\ ops = Queued("Do", lo[c], Len(calls))
      /\ IsPrefix(snap[c].creates, toCreate)
      /\ IsPrefix(snap[c].updates, toUpdate)
      /\ IsPrefix(snap[c].deletes, toDelete)
      /\ IsPrefix(snap[c].deferredOps, ops)
      /\ \A i \in DOMAIN txlog[c] : txlog[c][i][2] \in PendingIds
      /\ HasPending <=>
           \E k \in (lo[c] + 1)..Len(calls) : calls[k] \in DataMethods

\* a failed commit about to return its error, with items in its snapshot and
\* an item queued during the attempt
C6_Witness ==
  /\ AtReturnErr("c1")
  /\ ~disturbed["c1"]
  /\ txlog["c1"] # <<>>
  /\ \E k \in (hi["c1"] + 1)..Len(calls) : calls[k] \in DataMethods

\* C7: while the transaction body runs no call has failed; once a call has
\* failed the body has ended, and the failed call is the last one the store
\* received in that commit (nothing of its stage or of a later stage follows).
C7_FirstFailureAborts ==
  \A c \in Committers :
    /\ pc[c] = "tx" => txErr[c] = NoErr
    /\ txErr[c] \notin {NoErr, ErrTx} =>
         /\ pc[c] = "rollback"
         /\ txlog[c] # <<>>
         /\ txErr[c] = ErrOf(txlog[c][Len(txlog[c])])
         /\ IsPrefix(txlog[c], Expected(c))

\* a create failed and an item of a later stage was left uninvoked
C7_Witness ==
  /\ pc["c1"] = "rollback"
  /\ txlog["c1"] # <<>>
  /\ txErr["c1"] = ErrOf(txlog["c1"][Len(txlog["c1"])])
  /\ txlog["c1"][Len(txlog["c1"])][1] = "Create"
  /\ Len(txlog["c1"]) < Len(Expected("c1"))

\* C8: the value Commit returns is its txErr: nil exactly when the transaction
\* succeeded, otherwise the error of the failed call or of the scope, whatever
\* the callbacks did.
C8_ReturnsTheTransactionError ==
  [][\A c \in Committers :
       (pc[c] # "idle" /\ pc'[c] = "idle") =>
         /\ ret'[c] = txErr[c]
         /\ (ret'[c] # NoErr) <=> (pc[c] = "rollback")
         /\ \/ txErr[c] \in {NoErr, ErrTx}
            \/ /\ txlog[c] # <<>>
               /\ txErr[c] = ErrOf(txlog[c][Len(txlog[c])])]_vars

\* a failed commit about to return the error of a call after one of its
\* rollback callbacks panicked
C8_Witness ==
  /\ AtReturnErr("c1")
  /\ panicked["c1"]
  /\ txErr["c1"] \notin {NoErr, ErrTx}

\* C9: nothing a commit does is in the store while its transaction runs or
\* after it failed; once it succeeded, the rows of all its calls are in the
\* store, together.
C9_Atomic ==
  \A c \in Committers :
    /\ pc[c] \in {"tx", "rollback"} => AttemptRows(c) = <<>>
    /\ pc[c] \in {"clear", "hooks"} =>
         /\ AttemptRows(c) = Rows(Expected(c), c)
         /\ \E k \in 0..Len(store) :
              SubSeq(store, k + 1, k + Len(Expected(c))) = AttemptRows(c)

\* a transaction rolled back after an earlier call of it had succeeded, the
\* store holding the rows of an earlier commit
C9_Witness ==
  /\ pc["c1"] = "rollback"
  /\ Len(txlog["c1"]) >= 2
  /\ store # <<>>

\* C10: no callback runs before the transaction has succeeded and the pending
\* state was cleared; then the commit callbacks of the snapshot run in
\* registration order, each once, and no rollback callback runs.
C10_CommitHooksOnSuccess ==
  \A c \in Committers :
    /\ pc[c] \in {"tx", "clear"} => hookLog[c] = <<>>
    /\ pc[c] = "hooks" =>
         /\ IsPrefix(hookLog[c], Queued("AfterCommit", lo[c], hi[c]))
         /\ Len(AttemptRows(c)) = Len(txlog[c])
    /\ AtReturnOk(c) => hookLog[c] = Queued("AfterCommit", lo[c], hi[c])

\* a successful commit about to return after running two commit callbacks,
\* a rollback callback being registered too
C10_Witness ==
  /\ AtReturnOk("c1")
  /\ Len(hookLog["c1"]) >= 2
  /\ snap["c1"].afterRollback # <<>>

\* C11: no rollback callback runs before the transaction has failed; after it
\* failed nothing of the attempt is in the store, and the rollback callbacks
\* registered before the snapshot run in registration order, each once, all of
\* them before the error is returned; no commit callback runs.
C11_RollbackHooksOnFailure ==
  \A c \in Committers :
    /\ pc[c] = "rollback" =>
         /\ txErr[c] # NoErr
         /\ AttemptRows(c) = <<>>
         /\ IsPrefix(hookLog[c], Queued("AfterRollback", lo[c], hi[c]))
         /\ \A i \in DOMAIN hookLog[c] : calls[hookLog[c][i]] = "AfterRollback"
    /\ AtReturnErr(c) => hookLog[c] = Queued("AfterRollback", lo[c], hi[c])

\* a failed commit about to return after running two rollback callbacks, a
\* commit callback being registered too
C11_Witness ==
  /\ AtReturnErr("c1")
  /\ Len(hookLog["c1"]) >= 2
  /\ snap["c1"].afterCommit # <<>>

\* C12: a commit returns only after every callback of its list was invoked,
\* also when one of them panicked, and the panic does not change the returned
\* value: nil on the success path, the transaction's error on the failure path.
C12_HookPanicIsSwallowed ==
  [][\A c \in Committers :
       (pc[c] # "idle" /\ pc'[c] = "idle" /\ panicked[c]) =>
         /\ pc[c] = "hooks" =>
              /\ hookLog[c] = Queued("AfterCommit", lo[c], hi[c])
              /\ ret'[c] = NoErr
         /\ pc[c] = "rollback" =>
              /\ hookLog[c] = Queued("AfterRollback", lo[c], hi[c])
              /\ ret'[c] = txErr[c]
              /\ ret'[c] # NoErr]_vars

\* a rollback callback has panicked and another one is still to be invoked
C12_Witness ==
  /\ pc["c1"] = "rollback"
  /\ panicked["c1"]
  /\ Len(hookLog["c1"]) = 1
  /\ Len(snap["c1"].afterRollback) = 2

\* C13 as stated: HasPending is true exactly when one of the six sequences,
\* the two callback lists included, is not empty.
C13_PendingIffAnySequence ==
  HasPending <=> ~AllEmpty

\* C13 amended: HasPending is true exactly when an entity or a deferred
\* operation was queued since the latest Clear; registered callbacks alone do
\* not make it true.
C13_PendingIffWorkQueued ==
  /\ HasPending <=> \E k \in (lastClear + 1)..Len(calls) : calls[k] \in DataMethods
  /\ (ops = <<>> /\ toCreate = <<>> /\ toUpdate = <<>> /\ toDelete = <<>>)
       => ~HasPending

\* only callbacks are registered and HasPending is false
C13_Witness ==
  /\ afterCommit # <<>>
  /\ afterRollback # <<>>
  /\ ~HasPending

\* C14: while nothing has been queued since construction or since the latest
\* Clear, all six sequences are empty; and a commit whose snapshot was taken
\* after a Clear holds, applies and invokes nothing registered before it.
C14_EmptyAfterNewAndClear ==
  /\ Len(calls) = lastClear => AllEmpty
  /\ \A c \in Committers :
       InFlight(c) =>
         /\ \A i \in DOMAIN Work(c) : Work(c)[i][2] > lo[c]
         /\ \A i \in DOMAIN txlog[c] : txlog[c][i][2] > lo[c]
         /\ \A k \in Range(snap[c].afterCommit) \cup Range(snap[c].afterRollback)
                   \cup Range(hookLog[c]) : k > lo[c]

\* create 1 failed in the previous commit and stayed queued, a commit callback
\* was registered after it, both were cleared by a call of Clear, and the next
\* commit is about to return nil having applied nothing and invoked no callback
C14_Witness ==
  /\ ret["c1"] = ErrOf(<<"Create", 1>>)
  /\ AtReturnOk("c1")
  /\ lo["c1"] >= 2
  /\ calls[2] = "AfterCommit"
  /\ txlog["c1"] = <<>>
  /\ hookLog["c1"] = <<>>

\* C15: each of the six sequences holds exactly the entries of the queue calls
\* of its method made since the latest Clear, one entry per call, in call
\* order (so in the order of each single caller), whoever made the calls.
C15_QueueCallsAllKept ==
  /\ toCreate = Queued("Add", lastClear, Len(calls))
  /\ toUpdate = Queued("Update", lastClear, Len(calls))
  /\ toDelete = Queued("RegisterDelete", lastClear, Len(calls))
  /\ ops = Queued("Do", lastClear, Len(calls))
  /\ afterCommit = Queued("AfterCommit", lastClear, Len(calls))
  /\ afterRollback = Queued("AfterRollback", lastClear, Len(calls))

\* no commit in flight, three queue calls made, two of them on the same slice
C15_Witness ==
  /\ \A c \in Committers : ~InFlight(c)
  /\ Len(toCreate) = 2
  /\ Len(toUpdate) = 1

\* C16: when a commit is about to return nil, every update queued while its
\* transaction ran (by a deferred operation of it) has been saved to the
\* store, and HasPending is false.
C16_UpdateQueuedByOperationIsSaved ==
  \A c \in Committers :
    (AtReturnOk(c) /\ ~disturbed[c] /\ Len(calls) = clr[c]) =>
      /\ \A k \in byOp[c] :
           calls[k] = "Update" =>
             \E i \in DOMAIN store : store[i][1] = "Save" /\ store[i][2] = k
      /\ ~HasPending

\* C17: a commit whose snapshot was taken right after a Clear has nothing to
\* apply: it makes no call on the store, no step of it changes the store, it
\* can fail only by the transaction scope itself failing, and returns nil
\* otherwise.
C17_CommitAfterClearIsEmpty ==
  [][\A c \in Committers :
       (InFlight(c) /\ lo[c] = hi[c]) =>
         /\ Work(c) = <<>>
         /\ txlog[c] = <<>>
         /\ store' = store
         /\ txErr[c] \in {NoErr, ErrTx}
         /\ pc[c] \in {"clear", "hooks"} => txErr[c] = NoErr
         /\ pc'[c] = "idle" => ret'[c] = txErr[c]]_vars

\* create 1 failed in the previous commit and stayed queued, Clear was called,
\* and the transaction of the next commit has succeeded with the store untouched
C17_Witness ==
  /\ ret["c1"] = ErrOf(<<"Create", 1>>)
  /\ pc["c1"] = "clear"
  /\ lo["c1"] = hi["c1"]
  /\ lo["c1"] >= 1
  /\ txlog["c1"] = <<>>
  /\ store = <<>>

\* C18: while a commit is in flight, between its snapshot and its return, the
\* mutex is free: a queue call, a Clear or HasPending by another caller, by a
\* deferred operation or by a callback can take it at once.
C18_LockFreeWhileInFlight ==
  \A c \in Committers :
    InFlight(c) =>
      /\ Lock
      /\ ENABLED CallClear
      /\ Len(calls) < MaxItems => ENABLED CallQueue("Update")

\* the transaction of a commit is running, one of its deferred operations has
\* queued an item on the instance and another caller has cleared it
C18_Witness ==
  /\ pc["c1"] = "tx"
  /\ byOp["c1"] # {}
  /\ disturbed["c1"]

\* C19: a commit enters its transaction only when it is called, the calls of
\* the transaction only accumulate until it ends (it is not begun again), and
\* every commit in flight eventually returns.
C19_TerminatesAfterOneAttempt ==
  /\ [][\A c \in Committers :
          /\ (pc'[c] = "tx" /\ pc[c] # "tx") => pc[c] = "idle"
          /\ (pc[c] = "tx" /\ pc'[c] = "tx" /\ txlog'[c] # txlog[c]) =>
               /\ Len(txlog[c]) < Len(Work(c))
               /\ txlog'[c] = Append(txlog[c], Work(c)[Len(txlog[c]) + 1])
          /\ (pc[c] = "tx" /\ pc'[c] # "tx") => pc'[c] \in {"clear", "rollback"}
          /\ pc[c] \in {"clear", "hooks", "rollback"} /\ pc'[c] # "idle" => snap'[c] = snap[c]]_vars
  /\ \A c \in Committers : InFlight(c) ~> ~InFlight(c)

\* a commit whose transaction failed after a successful call has run a
\* rollback callback and has not yet returned
C19_Witness ==
  /\ pc["c1"] = "rollback"
  /\ Len(txlog["c1"]) >= 2
  /\ hookLog["c1"] # <<>>

\* C20: no commit callback has run when the successful commit clears the
\* instance; while the callbacks run and nothing was queued since that Clear,
\* HasPending is false, and whatever was queued since that Clear is pending,
\* up to the return (nobody else clearing the instance).
C20_ClearBeforeCommitHooks ==
  \A c \in Committers :
    /\ pc[c] = "clear" => hookLog[c] = <<>>
    /\ pc[c] = "hooks" =>
         /\ clr[c] >= hi[c]
         /\ Len(calls) = clr[c] => ~HasPending
         /\ ~disturbed[c] =>
              /\ PendingIds = (clr[c] + 1)..Len(calls)
              /\ HasPending <=>
                   \E k \in (clr[c] + 1)..Len(calls) : calls[k] \in DataMethods

\* a successful commit about to return after its commit callback ran, with an
\* entity queued since its Clear still pending
C20_Witness ==
  /\ AtReturnOk("c1")
  /\ hookLog["c1"] # <<>>
  /\ txlog["c1"] # <<>>
  /\ toUpdate # <<>>
  /\ ~disturbed["c1"]

\* the slice a queueing method appends to
SliceOf(m) ==
  CASE m = "Add"            -> toCreate
    [] m = "Update"         -> toUpdate
    [] m = "RegisterDelete" -> toDelete
    [] m = "Do"             -> ops
    [] m = "AfterCommit"    -> afterCommit
    [] m = "AfterRollback"  -> afterRollback

\* C21: a queue call appends its one entry at the end of the slice of its
\* method and leaves the five other slices and the store as they were; a Clear
\* leaves the store as it was.
C21_QueueCallFrame ==
  [][/\ calls' # calls =>
          /\ Len(calls') = Len(calls) + 1
          /\ \A m \in Methods :
               IF m = calls'[Len(calls')]
                 THEN SliceOf(m)' = Append(SliceOf(m), Len(calls'))
                 ELSE SliceOf(m)' = SliceOf(m)
          /\ store' = store
     /\ (~AllEmpty /\ AllEmpty') => store' = store]_vars

\* one entry in each of three slices, queued while a transaction that already
\* made a call is running, the store holding an earlier commit
C21_Witness ==
  /\ pc["c1"] = "tx"
  /\ store # <<>>
  /\ txlog["c1"] # <<>>
  /\ Len(toUpdate) = 1
  /\ Len(afterRollback) = 1
  /\ Len(calls) > hi["c1"]

\* C24: the copies a commit took stay what was pending at its snapshot when
\* somebody else clears the instance: a commit so disturbed still applies the
\* whole snapshot in the fixed order, writes it to the store when it succeeds,
\* and invokes the callbacks of its snapshot.
C24_ForeignClearLeavesCommit ==
  \A c \in Committers :
    (InFlight(c) /\ disturbed[c]) =>
      /\ Work(c) = Expected(c)
      /\ snap[c].afterCommit = Queued("AfterCommit", lo[c], hi[c])
      /\ snap[c].afterRollback = Queued("AfterRollback", lo[c], hi[c])
      /\ IsPrefix(txlog[c], Expected(c))
      /\ pc[c] \in {"clear", "hooks"} =>
           /\ txlog[c] = Expected(c)
           /\ AttemptRows(c) = Rows(Expected(c), c)
      /\ AtReturnOk(c) => hookLog[c] = Queued("AfterCommit", lo[c], hi[c])
      /\ AtReturnErr(c) => hookLog[c] = Queued("AfterRollback", lo[c], hi[c])

\* the instance was cleared by somebody else while a commit was in flight and
\* is empty; the commit is about to return nil having written its snapshot to
\* the store and invoked its commit callback
C24_Witness ==
  /\ AtReturnOk("c1")
  /\ disturbed["c1"]
  /\ AttemptRows("c1") # <<>>
  /\ hookLog["c1"] # <<>>
  /\ AllEmpty

\* C25: the calls of New on one connection that returned without an error of
\* gorm.Open all got the handle the cache holds for the connection, the first
\* one stored; an entry of the cache, once stored, is never replaced or removed.
C25_OneRootPerConnection ==
  /\ [](\A n, m \in NewCallers :
          (newPc[n] = "done" /\ newPc[m] = "done" /\ sqlDB[n] = sqlDB[m]
             /\ ~openErr[n] /\ ~openErr[m]) =>
            /\ root[n] = root[m]
            /\ root[n] # Nil
            /\ root[n] = gormRoots[sqlDB[n]])
  /\ [][\A d \in Conns : gormRoots[d] # Nil => gormRoots'[d] = gormRoots[d]]_vars

\* two calls on the same connection both missed the cache and both opened a
\* handle; both have returned, with the handle of one of them
C25_Witness ==
  /\ newPc["n1"] = "done" /\ newPc["n2"] = "done"
  /\ sqlDB["n1"] = sqlDB["n2"]
  /\ gdb["n1"] # Nil /\ gdb["n2"] # Nil
  /\ ~openErr["n1"] /\ ~openErr["n2"]
  /\ root["n1"] = root["n2"]

\* C22: with commits retried and no Clear called, a rollback callback
\* registered before the first commit has been invoked once by every failed
\* attempt so far, all attempts having failed while it is registered, and not
\* by the attempt that succeeds; a commit callback registered before the first
\* commit is not invoked while the attempts fail and is invoked exactly once,
\* by the attempt that succeeds.
C22_HooksSurviveFailedCommits ==
  \A k \in 1..tally.firstHi :
    /\ (calls[k] = "AfterRollback" /\ lastClear < k) =>
         /\ tally.failures = tally.attempts - (IF InFlight("c1") THEN 1 ELSE 0)
         /\ tally.fired[k] = tally.failures
              + (IF pc["c1"] = "rollback" /\ k \in Range(hookLog["c1"]) THEN 1 ELSE 0)
         /\ AtReturnErr("c1") => tally.fired[k] = tally.attempts
         /\ k \in Range(afterRollback)
    /\ (calls[k] = "AfterRollback" /\ pc["c1"] = "hooks" /\ lo["c1"] < k) =>
         tally.fired[k] = tally.failures
    /\ calls[k] = "AfterCommit" =>
         /\ tally.fired[k] <= 1
         /\ lastClear < k => (tally.fired[k] = 0 /\ k \in Range(afterCommit))
         /\ (AtReturnOk("c1") /\ lo["c1"] < k) => tally.fired[k] = 1
         /\ (k <= lastClear /\ ~(pc["c1"] = "hooks" /\ lo["c1"] < k)) =>
              tally.fired[k] = 1

\* the third commit is about to return nil after two failed ones: the rollback
\* callback registered before the first was invoked twice, the commit
\* callback once
C22_Witness ==
  /\ AtReturnOk("c1")
  /\ tally.failures = 2
  /\ \E j, k \in 1..tally.firstHi :
       /\ calls[j] = "AfterRollback" /\ tally.fired[j] = 2
       /\ calls[k] = "AfterCommit" /\ tally.fired[k] = 1

====
